---------------------------- MODULE Spec2Model ----------------------------
(***************************************************************************)
(* Model of the generation and personalization core of the ai_engine       *)
(* package: LLMService (llm_service.py) and EmailAgent (agent_emailer.py)  *)
(* over EmailTemplateStore (vector_store.py), and of lead discovery:       *)
(* search_leads (agent_prospector.py) over SearchEngine (search_engine.py).*)
(*                                                                         *)
(* Text is a sequence of tokens: every token is one character, except the  *)
(* literal marker "Subject:" which is kept as one token of eight           *)
(* characters.  Money is counted in units of 1e-10 dollar, so that every   *)
(* per-token rate of the source is an integer.                             *)
(***************************************************************************)
EXTENDS Integers, Sequences, FiniteSets, TLC

VARIABLES
    envProvider,  \* os.getenv("LLM_PROVIDER"), NoneVal when unset
    ctor,         \* the last top-level LLMService(...) call and its outcome
    objs,         \* live LLMService objects: objs[1] is the caller's instance,
                  \* objs[d+1] the fallback instance created by frame d
    pcs,          \* call stack of generate frames, frame d runs on objs[d]
    jsons,        \* json_mode parameter of every frame
    req,          \* arguments of the running top-level generate call
    attempts,     \* provider calls made by the running top-level call
    retries,      \* fallback LLMService(...) constructions made by it
    ret,          \* value handed back by the frame that returned last
    before,       \* counters of objs[1] when the top-level call started
    calls,        \* top-level generate calls started on objs[1]
    index,        \* the vector index: one metadata entry per upserted id
    table,        \* email_templates.json, the table of full templates
    epc,          \* where the running generate_email call stands
    ereq,         \* arguments of the running generate_email call
    match,        \* best match and full template of the running call
    looked,       \* ids the running call passed to get_template_by_id
    mapping,      \* variable mapping the running call built
    payload,      \* what the last generate_email call returned
    serpapi_key,  \* SearchEngine.serpapi_key, os.getenv("SERPAPI_API_KEY")
    spc,          \* where the running search_leads call stands
    icp,          \* argument of the running search_leads call
    qi,           \* position of the running reformulation in queries
    stage,        \* the provider call SearchEngine.search is about to make
    providerCalls,\* provider calls made by the running search_leads call
    raw_results,  \* raw_results of search_leads
    hits,         \* the list search_leads returned under "raw_results"
    last,         \* the last EmailTemplateStore call and what it returned
    bulked,       \* the list the last add_templates_bulk call was given
    bpc,          \* where the running add_templates_bulk call stands
    boff,         \* offset i of its batch loop
    batches,      \* the batches it has submitted, each with its outcome
    threads       \* generate calls that run side by side on objs[1]

llmVars == <<envProvider, ctor, objs, pcs, jsons, req, attempts, retries, ret, before, calls>>

emailVars == <<index, table, epc, ereq, match, looked, mapping, payload>>

searchVars == <<serpapi_key, spc, icp, qi, stage, providerCalls, raw_results, hits>>

storeVars == <<last, bulked>>

bulkVars == <<bpc, boff, batches>>

sharedVars == <<threads>>

restVars == <<searchVars, storeVars, bulkVars, sharedVars>>

vars == <<envProvider, ctor, objs, pcs, jsons, req, attempts, retries, ret, before, calls,
          index, table, epc, ereq, match, looked, mapping, payload,
          serpapi_key, spc, icp, qi, stage, providerCalls, raw_results, hits,
          last, bulked, bpc, boff, batches, threads>>

-----------------------------------------------------------------------------
(* Bounds of the model *)

MaxCalls == 2
MaxDepth == 3
MaxTextLen == 3

(* Python values *)

NoneVal == "None"
Truthy(v) == v # NoneVal /\ v # ""

Min(a, b) == IF a < b THEN a ELSE b

-----------------------------------------------------------------------------
(* Text *)

Marker == "Subject:"
Alphabet == {Marker, "x", " ", "\n"}
IsSpace(c) == c = " " \/ c = "\n"

RECURSIVE TextsOfLen(_)
TextsOfLen(n) ==
    IF n = 0 THEN {<<>>}
    ELSE {Append(t, c) : t \in TextsOfLen(n - 1), c \in Alphabet}

AllTexts == UNION {TextsOfLen(n) : n \in 0..MaxTextLen}
-----------------------------------------------------------------------------
(* LLMService: construction *)

Providers == {"openai", "gemini", "huggingface"}
CheapModel == "gpt-4o-mini"

ProviderArgs == {NoneVal, "openai", "gemini", "huggingface"}
ModelArgs == {NoneVal, "gpt-4o"}
KeyArgs == {NoneVal, "", "sk-user"}
EnvProviders == {NoneVal, "gemini", "bogus"}

\* self.provider = provider or os.getenv("LLM_PROVIDER", "openai")
ResolveProvider(provider) ==
    IF Truthy(provider) THEN provider
    ELSE IF envProvider = NoneVal THEN "openai" ELSE envProvider

\* variant: the requested model is kept whatever the credential
PinnedModelRequested(provider, model, api_key) == model

\* the cost-control rule of __init__
PinnedModel(provider, model, api_key) ==
    IF provider = "openai" /\ ~Truthy(api_key) THEN CheapModel ELSE model

\* self.model after _init_client
ClientModel(provider, model) ==
    CASE provider = "openai" -> IF Truthy(model) THEN model ELSE CheapModel
      [] provider = "gemini" -> model
      [] provider = "huggingface" ->
            IF Truthy(model) THEN model ELSE "meta-llama/Llama-3.2-3B-Instruct"
      [] OTHER -> model

\* the object LLMService(provider, model, api_key) leaves behind
NewService(provider, model, api_key) ==
    LET p == ResolveProvider(provider) IN
    [provider     |-> p,
     api_key      |-> api_key,
     model        |-> ClientModel(p, PinnedModel(p, model, api_key)),
     total_tokens |-> 0,
     total_cost   |-> 0]

\* _init_client raises ValueError for any other provider
Supported(provider) == ResolveProvider(provider) \in Providers

NoCtor == [provider |-> NoneVal, model |-> NoneVal, api_key |-> NoneVal, outcome |-> "none"]

-----------------------------------------------------------------------------
(* LLMService: results *)

NoResult == [kind |-> "pending", content |-> <<>>, tokens |-> 0, cost |-> 0,
             provider |-> NoneVal, model |-> NoneVal]
Raised == [kind |-> "raised", content |-> <<>>, tokens |-> 0, cost |-> 0,
           provider |-> NoneVal, model |-> NoneVal]

Result(content, tokens, cost, provider, model) ==
    [kind |-> "result", content |-> content, tokens |-> tokens, cost |-> cost,
     provider |-> provider, model |-> model]

\* rates per token in units of 1e-10 dollar
OpenAIPromptRate == 1500
OpenAICompletionRate == 6000
GeminiRate == 750
HuggingFaceRate == 10
PromptEchoLen == 100

\* usage figures a provider may report, all non-negative
UsageVals == {0, 100}

\* what the provider's client hands back: text and usage
Responses(texts) ==
    [content : texts, prompt_tokens : UsageVals, completion_tokens : UsageVals]

GenerateOpenAI(self, r) ==
    Result(r.content,
           r.prompt_tokens + r.completion_tokens,
           r.prompt_tokens * OpenAIPromptRate + r.completion_tokens * OpenAICompletionRate,
           "openai", self.model)

GenerateGemini(self, r) ==
    LET tokens == r.prompt_tokens + r.completion_tokens IN
    Result(r.content, tokens, tokens * GeminiRate, "gemini",
           IF Truthy(self.model) THEN self.model ELSE "gemini-1.5-flash")

\* len(text.split()): maximal runs of non-space characters
RECURSIVE WordCount(_, _)
WordCount(t, inWord) ==
    IF t = <<>> THEN 0
    ELSE IF IsSpace(Head(t)) THEN WordCount(Tail(t), FALSE)
    ELSE (IF inWord THEN 0 ELSE 1) + WordCount(Tail(t), TRUE)

\* tokens = len(response.split()) * 1.3, reported as int(tokens)
GenerateHuggingFace(self, r) ==
    LET words == WordCount(r.content, FALSE) IN
    Result(r.content, (words * 13) \div 10, (words * 13 * HuggingFaceRate) \div 10,
           "huggingface", self.model)

Dispatch(self, r) ==
    CASE self.provider = "openai" -> GenerateOpenAI(self, r)
      [] self.provider = "gemini" -> GenerateGemini(self, r)
      [] self.provider = "huggingface" -> GenerateHuggingFace(self, r)

\* the first line of the personalization prompt, kept as one token
HeaderLine == "You are an expert cold email writer. [...] using the provided information."
PromptHeaderLen == 100

\* characters of a token
TokenLen(c) ==
    CASE c = Marker -> 8
      [] c = HeaderLine -> PromptHeaderLen
      [] OTHER -> 1

\* t[:n]; a token cut in the middle leaves plain characters, no marker
RECURSIVE Slice(_, _)
Slice(t, n) ==
    IF t = <<>> \/ n <= 0 THEN <<>>
    ELSE IF TokenLen(Head(t)) <= n
         THEN <<Head(t)>> \o Slice(Tail(t), n - TokenLen(Head(t)))
         ELSE [i \in 1..n |-> "x"]

ErrorPrefix == <<"Error:">>

\* a last resort that echoes the whole prompt
TerminalFailureEchoesAll(prompt) ==
    Result(ErrorPrefix \o <<" ">> \o prompt \o <<"...">>, 0, 0, "none", "error")

\* the last resort of _fallback_generate
TerminalFailure(prompt) ==
    Result(ErrorPrefix \o <<" ">> \o Slice(prompt, PromptEchoLen) \o <<"...">>,
           0, 0, "none", "error")

\* variant: usage is subtracted
AccumulateNegated(total, amount) == total - amount

\* self.total_tokens += ..., self.total_cost += ...
Accumulate(total, amount) == total + amount

\* usage tracking that also takes over the model the response names
TrackUsageRebinds(self, response) ==
    [self EXCEPT !.total_tokens = Accumulate(self.total_tokens, response.tokens),
                 !.total_cost = Accumulate(self.total_cost, response.cost),
                 !.model = response.model]

TrackUsage(self, response) ==
    [self EXCEPT !.total_tokens = Accumulate(self.total_tokens, response.tokens),
                 !.total_cost = Accumulate(self.total_cost, response.cost)]

\* an except clause that charges the failed attempt to the instance
OnProviderErrorCharges(self) ==
    [self EXCEPT !.total_tokens = self.total_tokens + 1,
                 !.total_cost = self.total_cost + GeminiRate]

\* the except clause of generate: it reaches _fallback_generate with self
\* as the try block left it, and the usage lines were not reached
OnProviderError(self) == self

\* round(x, 4) of an amount in units of 1e-10 dollar, ties to even
Round4(x) ==
    LET q == x \div 1000000
        r == x % 1000000
    IN  IF 2 * r < 1000000 THEN q * 1000000
        ELSE IF 2 * r > 1000000 THEN (q + 1) * 1000000
        ELSE IF q % 2 = 0 THEN q * 1000000 ELSE (q + 1) * 1000000

GetUsageStats(self) ==
    [total_tokens |-> self.total_tokens,
     total_cost   |-> Round4(self.total_cost),
     provider     |-> self.provider,
     model        |-> self.model]

-----------------------------------------------------------------------------
(* LLMService: fallback policy *)

\* variant: without the developer-key branch
FallbackBranchNoKeyRetry(self) ==
    IF self.provider # "openai" THEN "openai" ELSE "none"

\* which branch of _fallback_generate the failing instance takes
FallbackBranch(self) ==
    IF self.provider = "openai" /\ self.api_key # NoneVal THEN "developer_key"
    ELSE IF self.provider # "openai" THEN "openai"
    ELSE "none"

\* variant: the retry keeps the caller's credential
FallbackArgsKeepKey(self) ==
    [provider |-> "openai", model |-> CheapModel, api_key |-> self.api_key]

\* variant: the retry goes to the failing provider again
FallbackArgsSameProvider(self) ==
    [provider |-> self.provider, model |-> self.model, api_key |-> NoneVal]

\* arguments of the LLMService(...) call of either retry branch
FallbackArgs(self) ==
    [provider |-> "openai", model |-> CheapModel, api_key |-> NoneVal]

\* fallback.generate(prompt, system_prompt, max_tokens, temperature)
FallbackJsonMode(json_mode) == FALSE

\* variant: the exception of a retry branch escapes
OnFallbackExceptionUncaught(prompt) == Raised

\* an exception inside a retry branch is caught and falls through to the last resort
OnFallbackException(prompt) == TerminalFailure(prompt)
-----------------------------------------------------------------------------
(* LLMService: the state machine of generate *)

Prompts == {<<"x">>, <<Marker, " ", "x">>}
SampleTexts == {<<>>, <<"x">>, <<Marker, "x">>, <<"x", " ", "x">>}

NoReq == [prompt |-> <<>>, json_mode |-> FALSE]
NoUsage == [total_tokens |-> 0, total_cost |-> 0]

Top == Len(pcs)
Idle == pcs = <<>>
Done == Idle /\ ret.kind # "pending"

Pop(q) == SubSeq(q, 1, Len(q) - 1)

\* one provider call as the running call made it
Attempt(self, json_mode, ok) ==
    [provider |-> self.provider, api_key |-> self.api_key, model |-> self.model,
     json_mode |-> (self.provider = "openai" /\ json_mode), ok |-> ok]

\* LLMService(provider, model, api_key) by a caller: an object, or ValueError
\* for an unsupported provider, or the error of a client that cannot be built
Construct(provider, model, api_key) ==
    /\ objs = <<>>
    /\ \E built \in BOOLEAN :
         IF Supported(provider) /\ built
         THEN /\ objs' = <<NewService(provider, model, api_key)>>
              /\ ctor' = [provider |-> provider, model |-> model, api_key |-> api_key,
                          outcome |-> "ok"]
         ELSE /\ objs' = objs
              /\ ctor' = [provider |-> provider, model |-> model, api_key |-> api_key,
                          outcome |-> IF Supported(provider) THEN "ClientError"
                                      ELSE "ValueError"]
    /\ UNCHANGED <<envProvider, pcs, jsons, req, attempts, retries, ret, before, calls>>
    /\ UNCHANGED <<emailVars, restVars>>

\* generate(prompt, json_mode=...) called on objs[1]
BeginGenerate(prompt, json_mode) ==
    /\ Len(objs) = 1
    /\ Idle
    /\ calls < MaxCalls
    /\ pcs' = <<"try">>
    /\ jsons' = <<json_mode>>
    /\ req' = [prompt |-> prompt, json_mode |-> json_mode]
    /\ attempts' = <<>>
    /\ retries' = <<>>
    /\ ret' = NoResult
    /\ before' = [total_tokens |-> objs[1].total_tokens, total_cost |-> objs[1].total_cost]
    /\ calls' = calls + 1
    /\ UNCHANGED <<envProvider, ctor, objs>>

StartGenerate ==
    /\ \E prompt \in Prompts, json_mode \in BOOLEAN : BeginGenerate(prompt, json_mode)
    /\ UNCHANGED <<emailVars, restVars>>

\* the try block runs to its return: usage is tracked on self
ProviderSucceeds(texts) ==
    /\ ~Idle
    /\ pcs[Top] = "try"
    /\ \E r \in Responses(texts) :
         LET self == objs[Top]
             response == Dispatch(self, r)
         IN  /\ objs' = [objs EXCEPT ![Top] = TrackUsage(self, response)]
             /\ ret' = response
             /\ attempts' = Append(attempts, Attempt(self, jsons[Top], TRUE))
    /\ pcs' = Pop(pcs)
    /\ jsons' = Pop(jsons)
    /\ UNCHANGED <<envProvider, ctor, req, retries, before, calls>>
    /\ UNCHANGED <<emailVars, restVars>>

\* any exception inside the try block: on to _fallback_generate
ProviderFails ==
    /\ ~Idle
    /\ pcs[Top] = "try"
    /\ attempts' = Append(attempts, Attempt(objs[Top], jsons[Top], FALSE))
    /\ pcs' = [pcs EXCEPT ![Top] = "except"]
    /\ objs' = [objs EXCEPT ![Top] = OnProviderError(objs[Top])]
    /\ UNCHANGED <<envProvider, ctor, jsons, req, retries, ret, before, calls>>
    /\ UNCHANGED <<emailVars, restVars>>

\* a retry branch builds the fallback service and calls its generate
FallbackRetry ==
    /\ ~Idle
    /\ pcs[Top] = "except"
    /\ FallbackBranch(objs[Top]) # "none"
    /\ Len(objs) < MaxDepth
    /\ LET a == FallbackArgs(objs[Top]) IN
         /\ retries' = Append(retries, [provider |-> a.provider, model |-> a.model,
                                        api_key |-> a.api_key, built |-> TRUE])
         /\ objs' = Append(objs, NewService(a.provider, a.model, a.api_key))
    /\ pcs' = Append([pcs EXCEPT ![Top] = "await"], "try")
    /\ jsons' = Append(jsons, FallbackJsonMode(jsons[Top]))
    /\ UNCHANGED <<envProvider, ctor, req, attempts, ret, before, calls>>
    /\ UNCHANGED <<emailVars, restVars>>

\* a retry branch whose LLMService(...) raises (no usable client)
FallbackConstructFails ==
    /\ ~Idle
    /\ pcs[Top] = "except"
    /\ FallbackBranch(objs[Top]) # "none"
    /\ LET a == FallbackArgs(objs[Top]) IN
         retries' = Append(retries, [provider |-> a.provider, model |-> a.model,
                                     api_key |-> a.api_key, built |-> FALSE])
    /\ ret' = OnFallbackException(req.prompt)
    /\ pcs' = Pop(pcs)
    /\ jsons' = Pop(jsons)
    /\ UNCHANGED <<envProvider, ctor, objs, req, attempts, before, calls>>
    /\ UNCHANGED <<emailVars, restVars>>

\* fallback.generate returned: the retry branch returns its result
FallbackReturn ==
    /\ ~Idle
    /\ pcs[Top] = "await"
    /\ ret.kind # "pending"
    /\ ret' = IF ret.kind = "raised" THEN OnFallbackException(req.prompt) ELSE ret
    /\ objs' = Pop(objs)
    /\ pcs' = Pop(pcs)
    /\ jsons' = Pop(jsons)
    /\ UNCHANGED <<envProvider, ctor, req, attempts, retries, before, calls>>
    /\ UNCHANGED <<emailVars, restVars>>

\* no retry branch applies: the last resort
FallbackNone ==
    /\ ~Idle
    /\ pcs[Top] = "except"
    /\ FallbackBranch(objs[Top]) = "none"
    /\ ret' = TerminalFailure(req.prompt)
    /\ pcs' = Pop(pcs)
    /\ jsons' = Pop(jsons)
    /\ UNCHANGED <<envProvider, ctor, objs, req, attempts, retries, before, calls>>
    /\ UNCHANGED <<emailVars, restVars>>

-----------------------------------------------------------------------------
(* Python strings and lists as the dossier carries them *)

None == [t |-> "none"]
Str(text) == [t |-> "str", s |-> text]
List(items) == [t |-> "list", l |-> items]

\* bool(value)
ValueTruthy(v) ==
    CASE v.t = "none" -> FALSE
      [] v.t = "str" -> v.s # <<>>
      [] v.t = "list" -> v.l # <<>>

\* d.get(key, default)
Get(d, key, default) == IF key \in DOMAIN d THEN d[key] ELSE default

\* value[0] of a non-empty string or list of strings
First(v) == IF v.t = "list" THEN Str(v.l[1]) ELSE Str(<<v.s[1]>>)

SummaryPreviewLen == 100

\* value[:100]
Slice100(v) ==
    IF v.t = "list" THEN List(SubSeq(v.l, 1, Min(Len(v.l), SummaryPreviewLen)))
    ELSE Str(Slice(v.s, SummaryPreviewLen))

\* str(value) inside an f-string
Render(v) ==
    CASE v.t = "none" -> <<"None">>
      [] v.t = "str" -> v.s
      [] v.t = "list" -> <<"[">> \o (IF v.l = <<>> THEN <<>> ELSE v.l[1]) \o <<"]">>

\* text.strip()
RECURSIVE LStrip(_)
LStrip(t) == IF t # <<>> /\ IsSpace(Head(t)) THEN LStrip(Tail(t)) ELSE t

RECURSIVE RStrip(_)
RStrip(t) == IF t # <<>> /\ IsSpace(t[Len(t)]) THEN RStrip(SubSeq(t, 1, Len(t) - 1)) ELSE t

Strip(t) == RStrip(LStrip(t))

\* text.split("\n")
RECURSIVE SplitLines(_, _)
SplitLines(t, line) ==
    IF t = <<>> THEN <<line>>
    ELSE IF Head(t) = "\n" THEN <<line>> \o SplitLines(Tail(t), <<>>)
    ELSE SplitLines(Tail(t), Append(line, Head(t)))

\* "\n".join(lines)
RECURSIVE JoinLines(_)
JoinLines(lines) ==
    IF lines = <<>> THEN <<>>
    ELSE IF Len(lines) = 1 THEN lines[1]
    ELSE lines[1] \o <<"\n">> \o JoinLines(Tail(lines))

\* line.replace("Subject:", "")
RemoveMarker(line) == SelectSeq(line, LAMBDA c : c # Marker)

-----------------------------------------------------------------------------
(* EmailTemplateStore *)

TopK == 3

TemplateA == [id |-> "t1", subject |-> <<"x">>, body |-> <<"x", "\n", "x">>,
              category |-> "cold_outreach", tone |-> "casual"]
TemplateB == [id |-> "t2", subject |-> <<"x", " ", "x">>, body |-> <<"x">>]
Templates == {TemplateA, TemplateB}

\* the metadata add_template and add_templates_bulk upsert for a template
IndexEntry(t) ==
    [id |-> t.id,
     subject |-> SubSeq(t.subject, 1, Min(Len(t.subject), 500)),
     category |-> Get(t, "category", "general"),
     tone |-> Get(t, "tone", "professional"),
     body_preview |-> SubSeq(t.body, 1, Min(Len(t.body), 200))]

Scores == {0, 1}

\* an index query that loses its metadata filter
CandidatesUnfiltered(category_filter) == index

\* the entries the index query may rank: all of them, or those of the category
Candidates(category_filter) ==
    {e \in index : Truthy(category_filter) => e.category = category_filter}

\* search_similar: the top_k nearest candidates, best first; which of them are
\* nearest is the embedding's business
SearchSimilar(category_filter) ==
    LET c == Candidates(category_filter)
        n == Min(TopK, Cardinality(c))
    IN  {m \in [1..n -> c \X Scores] :
            /\ \A i, j \in 1..n : i # j => m[i][1].id # m[j][1].id
            /\ \A i, j \in 1..n : i < j => m[i][2] >= m[j][2]}

NoTemplate == [id |-> NoneVal]
TemplateReadError == [id |-> NoneVal, raised |-> "JSONDecodeError"]

\* get_template_by_id: first template of the file with that id, None when the
\* file is missing or holds no such id; only FileNotFoundError is caught, so
\* a file that exists and cannot be read or parsed raises
RECURSIVE FindTemplate(_, _)
FindTemplate(templates, id) ==
    IF templates = <<>> THEN NoTemplate
    ELSE IF Head(templates).id = id THEN Head(templates)
    ELSE FindTemplate(Tail(templates), id)

GetTemplateById(id) ==
    IF ~table.present THEN NoTemplate
    ELSE IF ~table.readable THEN TemplateReadError
    ELSE FindTemplate(table.templates, id)

-----------------------------------------------------------------------------
(* EmailAgent *)

\* pain_points[0] when the list is non-empty, the default otherwise
FirstOr(dossier, key, default) ==
    IF key \in DOMAIN dossier /\ ValueTruthy(dossier[key])
    THEN First(dossier[key]) ELSE Str(<<default>>)

\* _extract_variables_from_dossier raises when company_summary is None
ExtractRaises(dossier) ==
    "company_summary" \in DOMAIN dossier /\ dossier["company_summary"].t = "none"

\* the mapping, in the order of the dict literal
ExtractVariables(dossier, user_context) ==
    << <<"Name", Str(<<"there">>)>>,
       <<"company", Get(dossier, "company_name", Str(<<"your company">>))>>,
       <<"Company", Get(dossier, "company_name", Str(<<"your company">>))>>,
       <<"pain point", FirstOr(dossier, "pain_points", "growth")>>,
       <<"goal", FirstOr(dossier, "pain_points", "improving results")>>,
       <<"problem", FirstOr(dossier, "pain_points", "challenges")>>,
       <<"value_prop", Get(dossier, "value_proposition", Str(<<"your solution">>))>>,
       <<"industry", FirstOr(dossier, "target_customers", "businesses")>>,
       <<"target type", FirstOr(dossier, "target_customers", "companies")>>,
       <<"technology", FirstOr(dossier, "technologies", "technology")>>,
       <<"Your Name", Get(user_context, "sender_name", Str(<<"John">>))>>,
       <<"your solution", Get(user_context, "solution", Str(<<"our platform">>))>>,
       <<"Website", Get(user_context, "website", Str(<<"example.com">>))>>,
       <<"something specific",
         Slice100(Get(dossier, "company_summary", Str(<<"your recent work">>)))>>,
       <<"result", Str(<<"better results">>)>>,
       <<"metric", Str(<<"conversions">>)>>,
       <<"time", Str(<<"30 days">>)>> >>

RECURSIVE VariableLines(_)
VariableLines(variables) ==
    IF variables = <<>> THEN <<>>
    ELSE <<"-", " ", Head(variables)[1], ":", " ">> \o Render(Head(variables)[2])
         \o (IF Len(variables) = 1 THEN <<>> ELSE <<"\n">>)
         \o VariableLines(Tail(variables))

\* the personalization prompt: its first line of 100 characters, the template,
\* the variables, the instructions and the format
BuildPrompt(template, variables) ==
    <<HeaderLine, "\n", "\n", "TEMPLATE:", "\n", Marker, " ">> \o template.subject
    \o <<"\n", "\n", "Body:", "\n">> \o template.body
    \o <<"\n", "\n", "AVAILABLE INFORMATION:", "\n">> \o VariableLines(variables)
    \o <<"\n", "\n", "INSTRUCTIONS:", "\n", "FORMAT:", "\n", Marker, " ", "x", "\n", "\n", "x", "\n">>

\* the loop over the lines of the response
RECURSIVE ParseLines(_, _, _, _)
ParseLines(lines, subject, body_lines, found_subject) ==
    IF lines = <<>> THEN [subject |-> subject, body_lines |-> body_lines]
    ELSE LET line == Head(lines) IN
         IF line # <<>> /\ Head(line) = Marker
         THEN ParseLines(Tail(lines), Strip(RemoveMarker(line)), body_lines, TRUE)
         ELSE IF found_subject /\ Strip(line) # <<>>
         THEN ParseLines(Tail(lines), subject, Append(body_lines, line), found_subject)
         ELSE ParseLines(Tail(lines), subject, body_lines, found_subject)

\* subject and body of _fill_template, with its fallback when no subject was parsed
ParseResponse(content, template) ==
    LET parsed == ParseLines(SplitLines(Strip(content), <<>>), <<>>, <<>>, FALSE)
        body == Strip(JoinLines(parsed.body_lines))
    IN  IF parsed.subject = <<>>
        THEN [subject |-> template.subject, body |-> content]
        ELSE [subject |-> parsed.subject, body |-> body]

NoPayload == [kind |-> "none"]
ErrorPayload(message) == [kind |-> "error", error |-> message]
RaisedPayload(exception) == [kind |-> "raised", exception |-> exception]

\* the dictionary _fill_template returns, with the score generate_email adds
FillTemplate(template, response, llm_service, score) ==
    LET parsed == ParseResponse(response.content, template) IN
    [kind |-> "email",
     subject |-> parsed.subject,
     body |-> parsed.body,
     template_id |-> template.id,
     template_category |-> Get(template, "category", "unknown"),
     tokens |-> response.tokens,
     cost |-> response.cost,
     llm_provider |-> llm_service.provider,
     template_match_score |-> score]

DossierFull == [company_name |-> Str(<<"A">>), company_summary |-> Str(<<"x", " ", "x">>),
                value_proposition |-> Str(<<"v">>), target_customers |-> List(<< <<"c">> >>),
                technologies |-> List(<< <<"k">> >>), pain_points |-> List(<< <<"p">>, <<"q">> >>)]
DossierAcme == [company_name |-> Str(<<"A">>), pain_points |-> List(<<>>),
                value_proposition |-> Str(<<>>)]
DossierScrapeFailed == [source_url |-> Str(<<"u">>), error |-> Str(<<"e">>),
                        company_summary |-> None]
DossierNulls == [company_name |-> None, value_proposition |-> None,
                 target_customers |-> None, technologies |-> None,
                 pain_points |-> None, recent_news |-> None]
Dossiers == {DossierFull, DossierAcme, DossierScrapeFailed, DossierNulls}

SenderFull == [sender_name |-> Str(<<"J">>), solution |-> Str(<<"s">>), website |-> Str(<<"w">>)]
SenderEmpty == [sender_name |-> Str(<<>>)]
SenderNone == [k \in {} |-> None]
Senders == {SenderFull, SenderEmpty, SenderNone}

CategoryArgs == {NoneVal, "cold_outreach"}

NoEmailReq == [category |-> NoneVal]
NoMatch == [id |-> NoneVal]
NoMapping == <<>>

\* generate_email up to its return or to the generate call of _fill_template
GenerateEmail(dossier, user_context, category) ==
    /\ epc = "idle"
    /\ Len(objs) = 1
    /\ Idle
    /\ calls < MaxCalls
    /\ ereq' = [dossier |-> dossier, user_context |-> user_context, category |-> category]
    /\ \E similar \in SearchSimilar(category) :
         IF similar = <<>>
         THEN /\ payload' = ErrorPayload("No matching templates found")
              /\ epc' = "done"
              /\ match' = NoMatch
              /\ looked' = <<>>
              /\ mapping' = NoMapping
              /\ UNCHANGED llmVars
         ELSE LET best == similar[1]
                  full == GetTemplateById(best[1].id)
              IN  /\ looked' = <<best[1].id>>
                  /\ IF full = TemplateReadError
                     THEN /\ payload' = RaisedPayload(full.raised)
                          /\ epc' = "done"
                          /\ match' = NoMatch
                          /\ mapping' = NoMapping
                          /\ UNCHANGED llmVars
                     ELSE IF full = NoTemplate
                     THEN /\ payload' = ErrorPayload("Template not found")
                          /\ epc' = "done"
                          /\ match' = NoMatch
                          /\ mapping' = NoMapping
                          /\ UNCHANGED llmVars
                     ELSE IF ExtractRaises(dossier)
                     THEN /\ payload' = RaisedPayload("TypeError")
                          /\ epc' = "done"
                          /\ match' = NoMatch
                          /\ mapping' = NoMapping
                          /\ UNCHANGED llmVars
                     ELSE /\ match' = [id |-> best[1].id, score |-> best[2], template |-> full]
                          /\ mapping' = ExtractVariables(dossier, user_context)
                          /\ epc' = "generating"
                          /\ payload' = NoPayload
                          /\ BeginGenerate(BuildPrompt(full, ExtractVariables(dossier, user_context)),
                                           FALSE)
    /\ UNCHANGED <<index, table>>
    /\ UNCHANGED restVars

StartGenerateEmail ==
    \E dossier \in Dossiers, user_context \in Senders, category \in CategoryArgs :
        GenerateEmail(dossier, user_context, category)

\* generate returned: _fill_template parses the response and generate_email returns
FinishGenerateEmail ==
    /\ epc = "generating"
    /\ Done
    /\ payload' = FillTemplate(match.template, ret, objs[1], match.score)
    /\ epc' = "done"
    /\ UNCHANGED <<index, table, ereq, match, looked, mapping>>
    /\ UNCHANGED llmVars
    /\ UNCHANGED restVars

-----------------------------------------------------------------------------
(* EmailTemplateStore: the operations on the index and the table *)

BatchSize == 100
MaxBulk == 2

\* a second version of t1 and a template of a third category
TemplateA2 == [id |-> "t1", subject |-> <<"x", "x">>, body |-> <<"x">>,
               category |-> "follow_up", tone |-> "casual"]
TemplateC == [id |-> "t3", subject |-> <<"x">>, body |-> <<"x", "x">>,
              category |-> "follow_up"]
StoreTemplates == {TemplateA, TemplateA2, TemplateB, TemplateC}
TemplateIds == {t.id : t \in StoreTemplates}

\* lists of templates with distinct ids, as add_templates_bulk is given them
BulkLists ==
    {ts \in UNION {[1..n -> StoreTemplates] : n \in 0..MaxBulk} :
        \A i, j \in DOMAIN ts : i # j => ts[i].id # ts[j].id}

StoreCategoryArgs == CategoryArgs \cup {"general", ""}

\* index.upsert(vectors=batch): entries replace those of the same id
Upsert(idx, batch) ==
    {e \in idx : \A i \in DOMAIN batch : batch[i].id # e.id}
        \cup {batch[i] : i \in DOMAIN batch}

\* a slice that stops one entry before the next batch begins
BatchDropsLast(vectors, i) ==
    SubSeq(vectors, i + 1, Min(Len(vectors), i + BatchSize - 1))

\* vectors[i:i+batch_size]
Batch(vectors, i) == SubSeq(vectors, i + 1, Min(Len(vectors), i + BatchSize))

\* the loop over range(0, len(vectors), batch_size), from offset i (0-based)
RECURSIVE UpsertBatches(_, _, _)
UpsertBatches(idx, vectors, i) ==
    IF i >= Len(vectors) THEN idx
    ELSE UpsertBatches(Upsert(idx, Batch(vectors, i)), vectors, i + BatchSize)

NoOp == [op |-> "none"]

\* no generate call runs beside another
NoThreads == threads = <<>>

StoreIdle ==
    /\ last = NoOp
    /\ bulked = <<>>
    /\ bpc = "idle"
    /\ boff = 0
    /\ batches = <<>>

storeFrame ==
    <<llmVars, searchVars, bulkVars, sharedVars, table, epc, ereq, match, looked, mapping, payload>>

\* add_template(template)
AddTemplate(template) ==
    /\ index' = Upsert(index, <<IndexEntry(template)>>)
    /\ last' = [op |-> "add_template", ret |-> template.id]
    /\ UNCHANGED bulked
    /\ UNCHANGED storeFrame

\* add_templates_bulk(templates)
AddTemplatesBulk(templates) ==
    /\ index' = UpsertBatches(index, [i \in DOMAIN templates |-> IndexEntry(templates[i])], 0)
    /\ last' = [op |-> "add_templates_bulk", ret |-> Len(templates)]
    /\ bulked' = templates
    /\ UNCHANGED storeFrame

\* search_similar(query, top_k=3, category_filter)
SearchSimilarCall(category_filter) ==
    /\ \E matches \in SearchSimilar(category_filter) :
          last' = [op |-> "search_similar", category_filter |-> category_filter,
                   ret |-> matches]
    /\ UNCHANGED <<index, bulked>>
    /\ UNCHANGED storeFrame

\* get_template_by_id(template_id)
GetTemplateByIdCall(template_id) ==
    /\ last' = [op |-> "get_template_by_id", template_id |-> template_id,
                ret |-> GetTemplateById(template_id)]
    /\ UNCHANGED <<index, bulked>>
    /\ UNCHANGED storeFrame

\* a delete that leaves the index as it was
IndexDeleteNothing(idx, template_id) == idx

\* index.delete(ids=[template_id])
IndexDelete(idx, template_id) == {e \in idx : e.id # template_id}

\* delete_template(template_id)
DeleteTemplate(template_id) ==
    /\ index' = IndexDelete(index, template_id)
    /\ last' = [op |-> "delete_template", template_id |-> template_id]
    /\ UNCHANGED bulked
    /\ UNCHANGED storeFrame

-----------------------------------------------------------------------------
(* EmailTemplateStore: add_templates_bulk, batch by batch *)

MaxBatches == 2

\* template number i of a long list
NumberedTemplate(i, category) ==
    IF category = NoneVal
    THEN [id |-> ToString(i), subject |-> <<"x">>, body |-> <<"x">>]
    ELSE [id |-> ToString(i), subject |-> <<"x">>, body |-> <<"x">>, category |-> category]

\* list lengths around the batch boundaries: 0, 1, 99, 100, 101, 199, ...
BulkLengths ==
    {n \in 0..(MaxBatches * BatchSize + 1) :
        \E k \in 0..MaxBatches, d \in {-1, 0, 1} : n = k * BatchSize + d}

LongLists ==
    {[i \in 1..n |-> NumberedTemplate(i, category)] :
        n \in BulkLengths, category \in CategoryArgs}

\* the vectors list add_templates_bulk builds before it upserts
Vectors(templates) == [i \in DOMAIN templates |-> IndexEntry(templates[i])]

\* an upsert error that is caught, the loop going on with the next batch
OnUpsertErrorSkip == "continue"

\* an upsert error leaves add_templates_bulk: nothing catches it
OnUpsertError == "raise"

bulkFrame ==
    <<llmVars, searchVars, sharedVars, table, epc, ereq, match, looked, mapping, payload>>

\* the loop is at offset i: return the count, or wait for the next upsert
BatchLoop(templates, i) ==
    IF i >= Len(templates)
    THEN /\ bpc' = "returned"
         /\ last' = [op |-> "add_templates_bulk", ret |-> Len(templates)]
    ELSE /\ bpc' = "upserting"
         /\ last' = [op |-> "add_templates_bulk"]

\* add_templates_bulk(templates) up to its first upsert
StartBulk(templates) ==
    /\ bpc = "idle"
    /\ bulked' = templates
    /\ boff' = 0
    /\ batches' = <<>>
    /\ BatchLoop(templates, 0)
    /\ UNCHANGED index
    /\ UNCHANGED bulkFrame

\* index.upsert(vectors=batch) succeeded
BatchUpserted ==
    /\ bpc = "upserting"
    /\ LET batch == Batch(Vectors(bulked), boff)
       IN  /\ index' = Upsert(index, batch)
           /\ batches' = Append(batches, [batch |-> batch, ok |-> TRUE])
    /\ boff' = boff + BatchSize
    /\ BatchLoop(bulked, boff + BatchSize)
    /\ UNCHANGED bulked
    /\ UNCHANGED bulkFrame

\* index.upsert(vectors=batch) raised; whether the index took the batch
\* before the error is the index's business
BatchFails ==
    /\ bpc = "upserting"
    /\ LET batch == Batch(Vectors(bulked), boff)
       IN  /\ index' \in {index, Upsert(index, batch)}
           /\ batches' = Append(batches, [batch |-> batch, ok |-> FALSE])
    /\ IF OnUpsertError = "raise"
       THEN /\ bpc' = "raised"
            /\ last' = [op |-> "add_templates_bulk", raised |-> "upsert"]
            /\ UNCHANGED boff
       ELSE /\ boff' = boff + BatchSize
            /\ BatchLoop(bulked, boff + BatchSize)
    /\ UNCHANGED bulked
    /\ UNCHANGED bulkFrame

-----------------------------------------------------------------------------
(* SearchEngine and search_leads *)

(* A URL or a title is a sequence of tokens: a token is a word (a host      *)
(* label, a path segment, "https:") or one of the separators "/", "." and   *)
(* " ".  A query is the sequence of its words.                              *)

SearchMaxResults == 20
MaxLeads == 5
MaxHits == 2

LowerToken(c) ==
    CASE c = "WIKIPEDIA" -> "wikipedia"
      [] c = "A" -> "a"
      [] c = "Top" -> "top"
      [] OTHER -> c

\* str.lower()
Lower(text) == [i \in DOMAIN text |-> LowerToken(text[i])]

\* sub in text
Contains(text, sub) ==
    \E i \in 1..(Len(text) - Len(sub) + 1) : SubSeq(text, i, i + Len(sub) - 1) = sub

ContainsAny(text, subs) == \E sub \in subs : Contains(text, sub)

\* href.split('/')
RECURSIVE SplitSlash(_)
SplitSlash(text) ==
    IF \A i \in DOMAIN text : text[i] # "/" THEN <<text>>
    ELSE LET i == CHOOSE i \in DOMAIN text :
                      text[i] = "/" /\ \A j \in 1..(i - 1) : text[j] # "/"
         IN  <<SubSeq(text, 1, i - 1)>> \o SplitSlash(SubSeq(text, i + 1, Len(text)))

Blacklist ==
    {<<"wikipedia", ".", "org">>, <<"linkedin", ".", "com", "/", "lists">>,
     <<"clutch", ".", "co">>, <<"yelp", ".", "com">>,
     <<"top10">>, <<"best", " ", "of">>, <<"google", ".", "com", "/", "search">>,
     <<"support", ".", "google", ".", "com">>,
     <<"play", ".", "google", ".", "com">>, <<"youtube", ".", "com">>,
     <<"docs", ".", "google", ".", "com">>,
     <<"facebook", ".", "com">>, <<"twitter", ".", "com">>, <<"instagram", ".", "com">>,
     <<"crunchbase", ".", "com", "/", "lists">>, <<"angellist", ".", "com", "/", "lists">>,
     <<"zhihu", ".", "com">>, <<"baidu", ".", "com">>, <<"weibo", ".", "com">>,
     <<"qq", ".", "com">>,
     <<"yandex", ".", "ru">>, <<"vk", ".", "com">>, <<"mail", ".", "ru">>}

NonEnglishTlds ==
    {<<".", "cn">>, <<".", "ru">>, <<".", "jp">>, <<".", "kr">>, <<".", "tw">>, <<".", "hk">>}

ListWords == {<<"list", " ", "of">>, <<"top", " ">>, <<"best", " ">>, <<"directory">>}

\* r.get('href', '') as the filter reads it, without the lower()
HrefRaw(r) == Get(r, "href", <<>>)

\* r.get('href', '').lower()
Href(r) == Lower(Get(r, "href", <<>>))

\* r.get('title', '').lower()
Title(r) == Lower(Get(r, "title", <<>>))

\* the first loop over raw_results: it skips or passes a result and keeps
\* nothing, so the list it walks is what the second loop walks
SkippedByFirstLoop(r) ==
    \/ ContainsAny(Href(r), Blacklist)
    \/ ContainsAny(Title(r), ListWords)
    \/ ContainsAny(Href(r), NonEnglishTlds)

\* href.split('/')[2] if '//' in href else href
Domain(href) ==
    IF Contains(href, <<"/", "/">>) THEN SplitSlash(href)[3] ELSE href

DomainRaises(href) == Contains(href, <<"/", "/">>) /\ Len(SplitSlash(href)) < 3

\* the second loop over raw_results, from result i on
RECURSIVE FilterLoop(_, _, _, _)
FilterLoop(raw, i, filtered_results, seen_domains) ==
    IF i > Len(raw) THEN filtered_results
    ELSE LET r == raw[i]
             href == Href(r)
         IN  IF ContainsAny(href, Blacklist)
             THEN FilterLoop(raw, i + 1, filtered_results, seen_domains)
             ELSE IF ContainsAny(Title(r), ListWords)
             THEN FilterLoop(raw, i + 1, filtered_results, seen_domains)
             ELSE IF DomainRaises(href)
             THEN FilterLoop(raw, i + 1, filtered_results, seen_domains)
             ELSE IF Domain(href) \in seen_domains
             THEN FilterLoop(raw, i + 1, filtered_results, seen_domains)
             ELSE IF Len(filtered_results) + 1 >= MaxLeads
             THEN Append(filtered_results, r)
             ELSE FilterLoop(raw, i + 1, Append(filtered_results, r),
                             seen_domains \cup {Domain(href)})

FilterResults(raw) == FilterLoop(raw, 1, <<>>, {})

\* a list of reformulations that asks the raw profile a second time
QueriesWithRepeat(profile) ==
    << profile \o <<"company", "website">>,
       profile \o <<"startups">>,
       profile \o <<"companies">>,
       profile,
       profile >>

\* the four reformulations, in order
Queries(profile) ==
    << profile \o <<"company", "website">>,
       profile \o <<"startups">>,
       profile \o <<"companies">>,
       profile >>

\* " ".join(query.split()[0:3])
BroadQuery(query) == SubSeq(query, 1, Min(Len(query), 3))

\* the for loop takes the next reformulation
NextQuery(i) == i + 1

SerpapiKeys == {NoneVal, "your_serpapi_key_here", "key"}

\* a search() that asks SerpAPI whatever the key
EnterSearchAlwaysPrimary == "serpapi"

\* the first provider search() calls: _search_serpapi answers [] without a
\* request when the key is unset or the placeholder
EnterSearch == IF serpapi_key = "key" THEN "serpapi" ELSE "ddg"

Url(scheme, host, path) ==
    (IF scheme THEN <<"https:", "/", "/">> ELSE <<>>) \o host
        \o (IF path = NoneVal THEN <<>> ELSE <<"/", path>>)

Hit(title, href) == [title |-> title, href |-> href]

PlainTitle == <<"Acme">>
ListTitle == <<"Top", " ", "10">>

HitPool ==
    {Hit(PlainTitle, Url(TRUE, <<"a", ".", "com">>, NoneVal)),
     Hit(PlainTitle, Url(TRUE, <<"A", ".", "com">>, "x")),
     Hit(PlainTitle, Url(FALSE, <<"a", ".", "com">>, "x")),
     Hit(PlainTitle, Url(FALSE, <<"a", ".", "com">>, "y")),
     Hit(PlainTitle, Url(TRUE, <<"b", ".", "cn">>, NoneVal)),
     Hit(PlainTitle, Url(TRUE, <<"en", ".", "WIKIPEDIA", ".", "org">>, "x")),
     Hit(ListTitle, Url(TRUE, <<"c", ".", "com">>, NoneVal)),
     Hit(PlainTitle, Url(TRUE, <<"d", ".", "com">>, NoneVal)),
     Hit(ListTitle, Url(TRUE, <<"d", ".", "com">>, "x"))}

\* a result page with more acceptable hosts than search_leads returns
LongResults ==
    [i \in 1..6 |->
        Hit(PlainTitle,
            Url(TRUE, << <<"a", "d", "e", "f", "g", "h">>[i], ".", "com" >>, NoneVal))]

ResultLists ==
    UNION {[1..n -> HitPool] : n \in 0..MaxHits} \cup {LongResults}

Profiles == {<<"fintech">>, <<"series", "b", "fintech", "startups">>}

SearchIdle ==
    /\ serpapi_key = NoneVal
    /\ spc = "idle"
    /\ icp = <<>>
    /\ qi = 0
    /\ stage = "none"
    /\ providerCalls = <<>>
    /\ raw_results = <<>>
    /\ hits = <<>>

\* a loop that only stops when a result survives the filters
FoundAcceptable(results) == FilterResults(results) # <<>>

\* if raw_results: break
FoundSomething(results) == results # <<>>

\* search() returned results to the loop of search_leads: stop at the first
\* non-empty answer or after the last reformulation, then filter and return
ReturnFromSearch(results) ==
    IF FoundSomething(results) \/ qi >= Len(Queries(icp))
    THEN /\ raw_results' = results
         /\ hits' = FilterResults(results)
         /\ spc' = "done"
         /\ stage' = "none"
         /\ qi' = qi
    ELSE /\ raw_results' = results
         /\ qi' = NextQuery(qi)
         /\ stage' = EnterSearch
         /\ UNCHANGED <<spc, hits>>

\* search_leads(icp) up to the first provider call
SearchLeads(profile) ==
    /\ spc = "idle"
    /\ icp' = profile
    /\ spc' = "searching"
    /\ qi' = 1
    /\ stage' = EnterSearch
    /\ providerCalls' = <<>>
    /\ raw_results' = <<>>
    /\ hits' = <<>>
    /\ UNCHANGED serpapi_key
    /\ UNCHANGED <<llmVars, emailVars, storeVars, bulkVars, sharedVars>>

\* one provider call of reformulation number attempt, and what came of it
ProviderCall(provider, query, answer) ==
    [attempt |-> qi, provider |-> provider, query |-> query, answer |-> answer]

\* _search_serpapi got a page of organic results
SerpapiReturns(organic) ==
    /\ spc = "searching"
    /\ stage = "serpapi"
    /\ LET results == SubSeq(organic, 1, Min(Len(organic), SearchMaxResults))
       IN  /\ providerCalls' =
                 Append(providerCalls, ProviderCall("serpapi", Queries(icp)[qi], results))
           /\ IF results # <<>>
              THEN ReturnFromSearch(results)
              ELSE /\ stage' = "ddg"
                   /\ UNCHANGED <<spc, qi, raw_results, hits>>
    /\ UNCHANGED <<serpapi_key, icp>>
    /\ UNCHANGED <<llmVars, emailVars, storeVars, bulkVars, sharedVars>>

\* the SerpAPI request raised, or answered an HTTP error or an error body
SerpapiFails ==
    /\ spc = "searching"
    /\ stage = "serpapi"
    /\ providerCalls' = Append(providerCalls, ProviderCall("serpapi", Queries(icp)[qi], <<>>))
    /\ stage' = "ddg"
    /\ UNCHANGED <<serpapi_key, spc, icp, qi, raw_results, hits>>
    /\ UNCHANGED <<llmVars, emailVars, storeVars, bulkVars, sharedVars>>

\* the query the pending DuckDuckGo call carries
DuckDuckGoQuery ==
    IF stage = "ddg" THEN Queries(icp)[qi] ELSE BroadQuery(Queries(icp)[qi])

\* search() after a DuckDuckGo call answered results
AfterDuckDuckGo(results) ==
    IF stage = "ddg" /\ results = <<>>
    THEN /\ stage' = "broad"
         /\ UNCHANGED <<spc, qi, raw_results, hits>>
    ELSE ReturnFromSearch(results)

\* _search_duckduckgo got a list of results
DuckDuckGoReturns(results) ==
    /\ spc = "searching"
    /\ stage \in {"ddg", "broad"}
    /\ providerCalls' =
          Append(providerCalls, ProviderCall("duckduckgo", DuckDuckGoQuery, results))
    /\ AfterDuckDuckGo(results)
    /\ UNCHANGED <<serpapi_key, icp>>
    /\ UNCHANGED <<llmVars, emailVars, storeVars, bulkVars, sharedVars>>

\* the DuckDuckGo call raised
DuckDuckGoFails ==
    /\ spc = "searching"
    /\ stage \in {"ddg", "broad"}
    /\ providerCalls' =
          Append(providerCalls, ProviderCall("duckduckgo", DuckDuckGoQuery, <<>>))
    /\ AfterDuckDuckGo(<<>>)
    /\ UNCHANGED <<serpapi_key, icp>>
    /\ UNCHANGED <<llmVars, emailVars, storeVars, bulkVars, sharedVars>>

-----------------------------------------------------------------------------
(* Two generate calls side by side on one LLMService instance *)

\* the callers that share the instance
Callers == {1, 2}

\* a caller before its call: no response, nothing read from the instance
Waiting == [pc |-> "idle", response |-> NoResult, seen_tokens |-> 0, seen_cost |-> 0]

sharedFrame ==
    <<envProvider, ctor, pcs, jsons, req, attempts, retries, ret, before, calls,
      emailVars, searchVars, storeVars, bulkVars>>

\* a statement that assigns the amount instead of adding it
StoreCounterOverwrites(seen, amount) == amount

\* the store that ends self.total_tokens += ... and self.total_cost += ...:
\* the value read earlier plus the amount of this response
StoreCounter(seen, amount) == Accumulate(seen, amount)

\* generate(...) entered by caller t
ThreadStarts(t) ==
    /\ threads[t].pc = "idle"
    /\ threads' = [threads EXCEPT ![t].pc = "calling"]
    /\ UNCHANGED objs
    /\ UNCHANGED sharedFrame

\* the provider call of caller t returns
ThreadProviderReturns(t, r) ==
    /\ threads[t].pc = "calling"
    /\ threads' = [threads EXCEPT ![t].pc = "load_tokens",
                                  ![t].response = Dispatch(objs[1], r)]
    /\ UNCHANGED objs
    /\ UNCHANGED sharedFrame

\* the provider call of caller t raises: the call goes on in
\* _fallback_generate, on objects of its own
ThreadProviderRaises(t) ==
    /\ threads[t].pc = "calling"
    /\ threads' = [threads EXCEPT ![t].pc = "except"]
    /\ objs' = [objs EXCEPT ![1] = OnProviderError(objs[1])]
    /\ UNCHANGED sharedFrame

\* self.total_tokens += ...: the attribute is read
LoadTokens(t) ==
    /\ threads[t].pc = "load_tokens"
    /\ threads' = [threads EXCEPT ![t].pc = "store_tokens",
                                  ![t].seen_tokens = objs[1].total_tokens]
    /\ UNCHANGED objs
    /\ UNCHANGED sharedFrame

\* self.total_tokens += ...: the sum is stored
StoreTokens(t) ==
    /\ threads[t].pc = "store_tokens"
    /\ objs' = [objs EXCEPT ![1].total_tokens =
                    StoreCounter(threads[t].seen_tokens, threads[t].response.tokens)]
    /\ threads' = [threads EXCEPT ![t].pc = "load_cost"]
    /\ UNCHANGED sharedFrame

\* self.total_cost += ...: the attribute is read
LoadCost(t) ==
    /\ threads[t].pc = "load_cost"
    /\ threads' = [threads EXCEPT ![t].pc = "store_cost",
                                  ![t].seen_cost = objs[1].total_cost]
    /\ UNCHANGED objs
    /\ UNCHANGED sharedFrame

\* self.total_cost += ...: the sum is stored, and the response is returned
StoreCost(t) ==
    /\ threads[t].pc = "store_cost"
    /\ objs' = [objs EXCEPT ![1].total_cost =
                    StoreCounter(threads[t].seen_cost, threads[t].response.cost)]
    /\ threads' = [threads EXCEPT ![t].pc = "returned"]
    /\ UNCHANGED sharedFrame

-----------------------------------------------------------------------------
(* Specifications *)

Init ==
    /\ envProvider \in EnvProviders
    /\ ctor = NoCtor
    /\ objs = <<>>
    /\ pcs = <<>>
    /\ jsons = <<>>
    /\ req = NoReq
    /\ attempts = <<>>
    /\ retries = <<>>
    /\ ret = NoResult
    /\ before = NoUsage
    /\ calls = 0
    /\ index = {}
    /\ table = [present |-> FALSE, readable |-> FALSE, templates |-> <<>>]
    /\ epc = "idle"
    /\ ereq = NoEmailReq
    /\ match = NoMatch
    /\ looked = <<>>
    /\ mapping = NoMapping
    /\ payload = NoPayload
    /\ SearchIdle
    /\ StoreIdle
    /\ NoThreads

NewInstance == \E provider \in ProviderArgs, model \in ModelArgs, api_key \in KeyArgs :
                  Construct(provider, model, api_key)

PrimaryOrRetrySucceeds == ProviderSucceeds(SampleTexts)

Next ==
    \/ NewInstance
    \/ StartGenerate
    \/ PrimaryOrRetrySucceeds
    \/ ProviderFails
    \/ FallbackRetry
    \/ FallbackConstructFails
    \/ FallbackReturn
    \/ FallbackNone

Spec == Init /\ [][Next]_vars

\* the table file as a deployment may hold it
Tables ==
    {[present |-> FALSE, readable |-> FALSE, templates |-> <<>>],
     [present |-> TRUE, readable |-> FALSE, templates |-> <<>>],
     [present |-> TRUE, readable |-> TRUE, templates |-> <<TemplateA>>],
     [present |-> TRUE, readable |-> TRUE, templates |-> <<TemplateA, TemplateB>>]}

\* EmailAgent(): llm_gpt = LLMService(provider="openai") over a seeded store
InitEmail ==
    /\ envProvider = NoneVal
    /\ ctor = [provider |-> "openai", model |-> NoneVal, api_key |-> NoneVal, outcome |-> "ok"]
    /\ objs = <<NewService("openai", NoneVal, NoneVal)>>
    /\ pcs = <<>>
    /\ jsons = <<>>
    /\ req = NoReq
    /\ attempts = <<>>
    /\ retries = <<>>
    /\ ret = NoResult
    /\ before = NoUsage
    /\ calls = 0
    /\ index \in SUBSET {IndexEntry(t) : t \in Templates}
    /\ table \in Tables
    /\ epc = "idle"
    /\ ereq = NoEmailReq
    /\ match = NoMatch
    /\ looked = <<>>
    /\ mapping = NoMapping
    /\ payload = NoPayload
    /\ SearchIdle
    /\ StoreIdle
    /\ NoThreads

\* answers with a blank line between paragraphs and with a second line that
\* starts with the subject marker
ParagraphTexts ==
    {<<Marker, "x", "\n", "\n", "x">>,
     <<Marker, "x", "\n", "x", "\n", "\n", "x">>,
     <<Marker, "x", "\n", Marker, "x">>}

ResponseArrives == ProviderSucceeds(AllTexts \cup ParagraphTexts)

NextEmail ==
    \/ StartGenerateEmail
    \/ ResponseArrives
    \/ ProviderFails
    \/ FallbackNone
    \/ FinishGenerateEmail

SpecEmail == InitEmail /\ [][NextEmail]_vars

\* get_search_engine(): one SearchEngine for the process, its key from the
\* environment
InitSearch ==
    /\ envProvider = NoneVal
    /\ ctor = NoCtor
    /\ objs = <<>>
    /\ pcs = <<>>
    /\ jsons = <<>>
    /\ req = NoReq
    /\ attempts = <<>>
    /\ retries = <<>>
    /\ ret = NoResult
    /\ before = NoUsage
    /\ calls = 0
    /\ index = {}
    /\ table = [present |-> FALSE, readable |-> FALSE, templates |-> <<>>]
    /\ epc = "idle"
    /\ ereq = NoEmailReq
    /\ match = NoMatch
    /\ looked = <<>>
    /\ mapping = NoMapping
    /\ payload = NoPayload
    /\ serpapi_key \in SerpapiKeys
    /\ spc = "idle"
    /\ icp = <<>>
    /\ qi = 0
    /\ stage = "none"
    /\ providerCalls = <<>>
    /\ raw_results = <<>>
    /\ hits = <<>>
    /\ StoreIdle
    /\ NoThreads

StartSearchLeads == \E profile \in Profiles : SearchLeads(profile)

SerpapiAnswers == \E organic \in ResultLists : SerpapiReturns(organic)

DuckDuckGoAnswers == \E results \in ResultLists : DuckDuckGoReturns(results)

NextSearch ==
    \/ StartSearchLeads
    \/ SerpapiAnswers
    \/ SerpapiFails
    \/ DuckDuckGoAnswers
    \/ DuckDuckGoFails

SpecSearch == InitSearch /\ [][NextSearch]_vars

\* an empty index next to the table file the deployment holds
InitStore ==
    /\ envProvider = NoneVal
    /\ ctor = NoCtor
    /\ objs = <<>>
    /\ pcs = <<>>
    /\ jsons = <<>>
    /\ req = NoReq
    /\ attempts = <<>>
    /\ retries = <<>>
    /\ ret = NoResult
    /\ before = NoUsage
    /\ calls = 0
    /\ index = {}
    /\ table \in Tables
    /\ epc = "idle"
    /\ ereq = NoEmailReq
    /\ match = NoMatch
    /\ looked = <<>>
    /\ mapping = NoMapping
    /\ payload = NoPayload
    /\ SearchIdle
    /\ StoreIdle
    /\ NoThreads

AddsTemplate == \E template \in StoreTemplates : AddTemplate(template)

AddsBulk == \E templates \in BulkLists : AddTemplatesBulk(templates)

Searches == \E category_filter \in StoreCategoryArgs : SearchSimilarCall(category_filter)

GetsTemplate == \E template_id \in TemplateIds : GetTemplateByIdCall(template_id)

Deletes == \E template_id \in TemplateIds : DeleteTemplate(template_id)

NextStore ==
    \/ AddsTemplate
    \/ AddsBulk
    \/ Searches
    \/ GetsTemplate
    \/ Deletes

SpecStore == InitStore /\ [][NextStore]_vars

\* an index that holds nothing, or the seed templates, before a bulk call
InitBulk ==
    /\ envProvider = NoneVal
    /\ ctor = NoCtor
    /\ objs = <<>>
    /\ pcs = <<>>
    /\ jsons = <<>>
    /\ req = NoReq
    /\ attempts = <<>>
    /\ retries = <<>>
    /\ ret = NoResult
    /\ before = NoUsage
    /\ calls = 0
    /\ index \in {{}, {IndexEntry(t) : t \in Templates}}
    /\ table = [present |-> TRUE, readable |-> TRUE, templates |-> <<TemplateA, TemplateB>>]
    /\ epc = "idle"
    /\ ereq = NoEmailReq
    /\ match = NoMatch
    /\ looked = <<>>
    /\ mapping = NoMapping
    /\ payload = NoPayload
    /\ SearchIdle
    /\ StoreIdle
    /\ NoThreads

StartsBulk == \E templates \in LongLists : StartBulk(templates)

NextBulk ==
    \/ StartsBulk
    \/ BatchUpserted
    \/ BatchFails

SpecBulk == InitBulk /\ [][NextBulk]_vars

\* usage the shared instance may carry when the two calls begin
PriorUsage == {[total_tokens |-> 0, total_cost |-> 0],
               [total_tokens |-> 100, total_cost |-> 100 * OpenAIPromptRate]}

\* the module-level EmailAgent of routes_email: its llm_gpt is one
\* LLMService for every request of the process
InitShared ==
    /\ envProvider = NoneVal
    /\ ctor = [provider |-> "openai", model |-> NoneVal, api_key |-> NoneVal, outcome |-> "ok"]
    /\ \E u \in PriorUsage :
          /\ objs = <<[NewService("openai", NoneVal, NoneVal)
                          EXCEPT !.total_tokens = u.total_tokens,
                                 !.total_cost = u.total_cost]>>
          /\ before = u
    /\ pcs = <<>>
    /\ jsons = <<>>
    /\ req = NoReq
    /\ attempts = <<>>
    /\ retries = <<>>
    /\ ret = NoResult
    /\ calls = 0
    /\ index = {}
    /\ table = [present |-> FALSE, readable |-> FALSE, templates |-> <<>>]
    /\ epc = "idle"
    /\ ereq = NoEmailReq
    /\ match = NoMatch
    /\ looked = <<>>
    /\ mapping = NoMapping
    /\ payload = NoPayload
    /\ SearchIdle
    /\ StoreIdle
    /\ threads = [t \in Callers |-> Waiting]

ThreadEnters == \E t \in Callers : ThreadStarts(t)

ThreadGetsResponse ==
    \E t \in Callers, r \in Responses({<<"x">>}) : ThreadProviderReturns(t, r)

ThreadGetsError == \E t \in Callers : ThreadProviderRaises(t)

ThreadLoadsTokens == \E t \in Callers : LoadTokens(t)

ThreadStoresTokens == \E t \in Callers : StoreTokens(t)

ThreadLoadsCost == \E t \in Callers : LoadCost(t)

ThreadStoresCost == \E t \in Callers : StoreCost(t)

NextShared ==
    \/ ThreadEnters
    \/ ThreadGetsResponse
    \/ ThreadGetsError
    \/ ThreadLoadsTokens
    \/ ThreadStoresTokens
    \/ ThreadLoadsCost
    \/ ThreadStoresCost

SpecShared == InitShared /\ [][NextShared]_vars
-----------------------------------------------------------------------------
(* Properties of LLMService *)

HasPrefix(t, prefix) ==
    Len(t) >= Len(prefix) /\ SubSeq(t, 1, Len(prefix)) = prefix

NoAttemptSucceeded == \A i \in DOMAIN attempts : ~attempts[i].ok

PrimaryFailed == Len(attempts) >= 1 /\ ~attempts[1].ok

IsFallbackBinding(a) ==
    a.provider = "openai" /\ a.api_key = NoneVal /\ a.model = CheapModel

\* C1: a finished generate call has returned a result record, never an
\* exception; when none of its provider attempts succeeded, the result has
\* provider "none", content starting with "Error:", tokens 0 and cost 0.
C1_GenerateNeverRaises ==
    /\ ret.kind # "raised"
    /\ Done =>
         /\ ret.kind = "result"
         /\ NoAttemptSucceeded =>
              /\ ret.provider = "none"
              /\ HasPrefix(ret.content, ErrorPrefix)
              /\ ret.tokens = 0
              /\ ret.cost = 0

\* a call that ended in the last resort because the fallback service could
\* not even be constructed
C1_Witness ==
    /\ Done
    /\ ret.provider = "none"
    /\ Len(retries) = 1 /\ ~retries[1].built
    /\ objs[1].provider = "huggingface"

\* C2: one top-level generate call makes at most two provider attempts and
\* at most one fallback construction; when the second attempt fails the call
\* returns the terminal failure result.
C2_FallbackDepthOne ==
    /\ Len(attempts) <= 2
    /\ Len(retries) <= 1
    /\ Len(objs) <= 2
    /\ (Done /\ Len(attempts) = 2 /\ ~attempts[2].ok) => ret = TerminalFailure(req.prompt)

\* both the primary attempt and the fallback attempt failed
C2_Witness ==
    /\ Done
    /\ Len(attempts) = 2
    /\ ~attempts[1].ok /\ ~attempts[2].ok
    /\ ret.provider = "none"

\* C3: every live instance bound to openai without a caller credential,
\* constructed directly or by the fallback path, has model "gpt-4o-mini".
C3_DefaultCredentialPinsCheapModel ==
    \A d \in DOMAIN objs :
        (objs[d].provider = "openai" /\ ~Truthy(objs[d].api_key))
            => objs[d].model = CheapModel

\* a directly constructed instance that asked for "gpt-4o" without a
\* credential, next to the fallback instance it created
C3_Witness ==
    /\ Len(objs) = 2
    /\ ctor.outcome = "ok" /\ ctor.model = "gpt-4o" /\ ~Truthy(ctor.api_key)
    /\ objs[1].provider = "openai" /\ objs[1].model = CheapModel
    /\ objs[2].provider = "openai" /\ objs[2].model = CheapModel

\* C4 (as claimed): when the primary attempt failed on an openai instance
\* whose credential construction treated as not supplied (absent or empty,
\* model pinned), the call made exactly one attempt, no fallback, and
\* returned the terminal failure result.
C4_NoFallbackOnDefaultCredential ==
    (/\ Done
     /\ PrimaryFailed
     /\ objs[1].provider = "openai"
     /\ ~Truthy(objs[1].api_key)
     /\ objs[1].model = CheapModel)
        => /\ Len(attempts) = 1
           /\ retries = <<>>
           /\ ret = TerminalFailure(req.prompt)

\* C5: when the primary attempt failed on openai with a caller credential,
\* the call made exactly one retry, on openai with the default credential and
\* "gpt-4o-mini"; a successful retry's result is the call's result.
C5_UserKeyRetriesOnDeveloperKey ==
    (/\ Done
     /\ PrimaryFailed
     /\ objs[1].provider = "openai"
     /\ Truthy(objs[1].api_key))
        => /\ Len(retries) = 1
           /\ IsFallbackBinding(retries[1])
           /\ Len(attempts) = (IF retries[1].built THEN 2 ELSE 1)
           /\ Len(attempts) = 2 =>
                /\ IsFallbackBinding(attempts[2])
                /\ attempts[2].ok =>
                     /\ ret.kind = "result"
                     /\ ret.provider = "openai"
                     /\ ret.model = CheapModel

\* the user key failed and the retry on the developer key succeeded
C5_Witness ==
    /\ Done
    /\ objs[1].provider = "openai" /\ objs[1].api_key = "sk-user"
    /\ objs[1].model = "gpt-4o"
    /\ Len(attempts) = 2 /\ ~attempts[1].ok /\ attempts[2].ok
    /\ ret.provider = "openai" /\ ret.model = CheapModel

\* C6: when the primary attempt failed on gemini or huggingface, with or
\* without a caller credential, the call made exactly one retry, on openai
\* with the default credential and "gpt-4o-mini"; no attempt after the first
\* went to a non-premium provider.
C6_NonPremiumRetriesOnPremium ==
    (/\ Done
     /\ PrimaryFailed
     /\ objs[1].provider # "openai")
        => /\ Len(retries) = 1
           /\ IsFallbackBinding(retries[1])
           /\ Len(attempts) = (IF retries[1].built THEN 2 ELSE 1)
           /\ \A i \in DOMAIN attempts : i >= 2 => IsFallbackBinding(attempts[i])

\* gemini with a caller credential failed and openai was tried once
C6_Witness ==
    /\ Done
    /\ objs[1].provider = "gemini" /\ objs[1].api_key = "sk-user"
    /\ Len(attempts) = 2 /\ ~attempts[1].ok
    /\ attempts[2].provider = "openai"

\* C7 (as claimed): when the call asked for structured output, every attempt
\* it made against openai, the fallback retry included, requested JSON mode.
C7_FallbackKeepsJsonMode ==
    \A i \in DOMAIN attempts :
        (req.json_mode /\ attempts[i].provider = "openai") => attempts[i].json_mode

\* C8 (as claimed): after a call that returned a successful result, by the
\* primary attempt or by the fallback path, the total_tokens and total_cost
\* of the instance it was called on have grown by the result's tokens and cost.
C8_SuccessAddsToCallersCounters ==
    (Done /\ ret.kind = "result" /\ ret.provider # "none")
        => /\ GetUsageStats(objs[1]).total_tokens = before.total_tokens + ret.tokens
           /\ objs[1].total_cost = before.total_cost + ret.cost

\* C9: every returned result has tokens >= 0 and cost >= 0, both 0 on
\* terminal failure, and no step lowers an instance's total_tokens or
\* total_cost.
C9_NonNegativeAndMonotone ==
    /\ [](/\ ret.tokens >= 0
          /\ ret.cost >= 0
          /\ (ret.provider = "none" => ret.tokens = 0 /\ ret.cost = 0))
    /\ [][\A d \in DOMAIN objs :
            d \in DOMAIN objs' =>
                /\ objs'[d].total_tokens >= objs[d].total_tokens
                /\ objs'[d].total_cost >= objs[d].total_cost]_vars

\* the second call on an instance succeeded on top of earlier usage
C9_Witness ==
    /\ Done
    /\ calls = 2
    /\ before.total_tokens > 0 /\ before.total_cost > 0
    /\ ret.tokens > 0 /\ ret.cost > 0
    /\ objs[1].total_tokens > before.total_tokens
    /\ objs[1].total_cost > before.total_cost

\* provider, model and credential of an instance
Binding(self) == [provider |-> self.provider, model |-> self.model, api_key |-> self.api_key]

\* C29: the binding of an instance is the one its construction gave it: no
\* step of a generate call, successful, falling back or failing for good,
\* changes the provider, model or credential of an instance, so
\* get_usage_stats names the same provider and model before and after.
C29_BindingFixedAtConstruction ==
    /\ [](objs # <<>> =>
            Binding(objs[1]) = Binding(NewService(ctor.provider, ctor.model, ctor.api_key)))
    /\ [][\A d \in DOMAIN objs :
            d \in DOMAIN objs' =>
                /\ Binding(objs'[d]) = Binding(objs[d])
                /\ GetUsageStats(objs'[d]).provider = GetUsageStats(objs[d]).provider
                /\ GetUsageStats(objs'[d]).model = GetUsageStats(objs[d]).model]_vars

\* a gemini instance without a model of its own, after a call it answered
\* itself and a call its openai fallback answered
C29_Witness ==
    /\ Done
    /\ calls = 2
    /\ objs[1].provider = "gemini"
    /\ objs[1].model = NoneVal
    /\ objs[1].total_tokens > 0
    /\ retries # <<>>
    /\ ret.provider = "openai"

\* C30: a call that ended in the terminal failure result left total_tokens
\* and total_cost of the instance it was called on as they were when the
\* call began, whichever fallback branch it went through.
C30_TerminalFailureKeepsCounters ==
    (Done /\ ret.kind = "result" /\ ret.provider = "none")
        => /\ objs[1].total_tokens = before.total_tokens
           /\ objs[1].total_cost = before.total_cost
           /\ GetUsageStats(objs[1]).total_tokens = before.total_tokens

\* a second call on an instance with usage failed for good after a retry
C30_Witness ==
    /\ Done
    /\ ret.provider = "none"
    /\ retries # <<>>
    /\ calls = 2
    /\ before.total_tokens > 0
    /\ objs[1].total_tokens = before.total_tokens

-----------------------------------------------------------------------------
(* Properties of concurrent generate calls *)

BothReturned == \A t \in Callers : threads[t].pc = "returned"

\* C28: two generate calls that run side by side on one instance can lose
\* an update. When both have returned, a counter holds the full sum exactly
\* when one caller read it after the other had stored; when both read the
\* same value, the counter holds that value plus the amount of one response
\* only. The state with both calls successful and the counters short of the
\* sum is reached.
C28_ConcurrentUpdatesCanBeLost ==
    BothReturned =>
        LET a == threads[1]
            b == threads[2]
        IN  /\ IF a.seen_tokens = b.seen_tokens
               THEN objs[1].total_tokens \in {a.seen_tokens + a.response.tokens,
                                              b.seen_tokens + b.response.tokens}
               ELSE objs[1].total_tokens =
                        before.total_tokens + a.response.tokens + b.response.tokens
            /\ IF a.seen_cost = b.seen_cost
               THEN objs[1].total_cost \in {a.seen_cost + a.response.cost,
                                            b.seen_cost + b.response.cost}
               ELSE objs[1].total_cost =
                        before.total_cost + a.response.cost + b.response.cost
            /\ objs[1].total_tokens <=
                   before.total_tokens + a.response.tokens + b.response.tokens
            /\ objs[1].total_cost <=
                   before.total_cost + a.response.cost + b.response.cost

\* both calls succeeded on a fresh instance and both counters are less than
\* the sum of the two results
C28_Witness ==
    /\ BothReturned
    /\ before.total_tokens = 0
    /\ threads[1].response.tokens > 0
    /\ threads[2].response.tokens > 0
    /\ objs[1].total_tokens < threads[1].response.tokens + threads[2].response.tokens
    /\ objs[1].total_cost < threads[1].response.cost + threads[2].response.cost
-----------------------------------------------------------------------------
(* Properties of EmailAgent *)

\* C10 (as claimed): every email payload generate_email returns after the
\* generation step has a non-empty subject and a non-empty body, whatever
\* text the generation service answered.
C10_SubjectAndBodyNonEmpty ==
    (epc = "done" /\ payload.kind = "email")
        => payload.subject # <<>> /\ payload.body # <<>>

\* no entry of the index passes the category filter of a request
NoEntryPasses(category) ==
    \A e \in index : Truthy(category) /\ e.category # category

\* the value the mapping of the running call holds under a key
MappingValue(key) ==
    LET i == CHOOSE i \in DOMAIN mapping : mapping[i][1] = key
    IN  mapping[i][2]

\* the running call found its template and went on to build the mapping
ReachedExtract ==
    /\ epc \in {"generating", "done"}
    /\ looked # <<>>
    /\ GetTemplateById(looked[1]) \notin {NoTemplate, TemplateReadError}

\* C11: when no template matches (an empty index, or a category filter that
\* excludes every entry) the query answers the empty list, and generate_email
\* returns the no-match error without any template lookup and without any
\* call of the generation service.
C11_NoMatchShortCircuits ==
    /\ \A c \in CategoryArgs : NoEntryPasses(c) => SearchSimilar(c) = {<<>>}
    /\ (epc = "done" /\ NoEntryPasses(ereq.category))
          => /\ payload = ErrorPayload("No matching templates found")
             /\ looked = <<>>
             /\ attempts = <<>>
             /\ calls = 0
             /\ req = NoReq

\* a call whose category filter excludes every entry of a non-empty index
C11_Witness ==
    /\ epc = "done"
    /\ index # {}
    /\ NoEntryPasses(ereq.category)
    /\ payload = ErrorPayload("No matching templates found")

\* C12 (as claimed): when the id of the best match is absent from the template
\* table, or the table cannot be read, generate_email returns the "Template
\* not found" error, which differs from the no-match error, and the
\* generation service is not called.
C12_MissingTemplateIsReported ==
    (/\ epc = "done"
     /\ looked # <<>>
     /\ \/ ~table.present
        \/ ~table.readable
        \/ \A i \in DOMAIN table.templates : table.templates[i].id # looked[1])
        => /\ payload = ErrorPayload("Template not found")
           /\ payload # ErrorPayload("No matching templates found")
           /\ attempts = <<>>
           /\ calls = 0

\* C13 (as claimed): for a dossier whose pain_points is missing or empty and a
\* sender context without sender_name, building the mapping raises nothing
\* and resolves "pain point" to "growth", "goal" to "improving results",
\* "problem" to "challenges" and "Your Name" to "John"; with a non-empty
\* pain_points the three keys resolve to its first element.
C13_MappingDefaults ==
    ReachedExtract =>
        /\ (/\ ~ValueTruthy(Get(ereq.dossier, "pain_points", None))
            /\ "sender_name" \notin DOMAIN ereq.user_context)
              => /\ payload.kind # "raised"
                 /\ mapping # NoMapping
                 /\ MappingValue("pain point") = Str(<<"growth">>)
                 /\ MappingValue("goal") = Str(<<"improving results">>)
                 /\ MappingValue("problem") = Str(<<"challenges">>)
                 /\ MappingValue("Your Name") = Str(<<"John">>)
        /\ ValueTruthy(Get(ereq.dossier, "pain_points", None))
              => /\ mapping # NoMapping
                 /\ MappingValue("pain point") = First(ereq.dossier["pain_points"])
                 /\ MappingValue("goal") = First(ereq.dossier["pain_points"])
                 /\ MappingValue("problem") = First(ereq.dossier["pain_points"])

\* C14 (as claimed): whatever optional fields of the dossier are absent or
\* None, the scrape-failure shape included, generate_email ends in a returned
\* payload and raises nothing (the template table being readable or missing).
C14_GenerateEmailNeverRaises ==
    (epc = "done" /\ (table.present => table.readable))
        => payload.kind \in {"email", "error"}

\* a field of a dossier or sender context is missing or the empty string
MissingOrEmpty(d, key) == key \notin DOMAIN d \/ d[key] = Str(<<>>)

\* C24 (as claimed): in the mapping a missing or empty value_proposition
\* gives "value_prop" the generic phrase, a missing or empty sender name,
\* solution or website gives "Your Name", "your solution" and "Website"
\* their placeholders, and no key of the mapping is the empty string.
C24_DefaultsForMissingOrEmpty ==
    (ReachedExtract /\ mapping # NoMapping) =>
        /\ MissingOrEmpty(ereq.dossier, "value_proposition")
              => MappingValue("value_prop") = Str(<<"your solution">>)
        /\ MissingOrEmpty(ereq.user_context, "sender_name")
              => MappingValue("Your Name") = Str(<<"John">>)
        /\ MissingOrEmpty(ereq.user_context, "solution")
              => MappingValue("your solution") = Str(<<"our platform">>)
        /\ MissingOrEmpty(ereq.user_context, "website")
              => MappingValue("Website") = Str(<<"example.com">>)
        /\ \A i \in DOMAIN mapping : mapping[i][1] # ""

\* the lines of a response as it came
ResponseLines(content) == SplitLines(content, <<>>)

\* a line that begins with the subject marker and carries a subject (one
\* that does not itself hold the marker)
IsSubjectLine(line) ==
    /\ line # <<>>
    /\ Head(line) = Marker
    /\ Strip(Tail(line)) # <<>>
    /\ \A i \in 2..Len(line) : line[i] # Marker

\* C25 (as claimed): when the response has a line that begins with
\* "Subject:" and carries a non-empty subject, the returned subject is the
\* text of that line after the marker and the returned body is all that
\* follows that line, to the end of the response, no line of it removed or
\* altered (surrounding whitespace aside).
C25_BodyIsAllAfterSubjectLine ==
    (/\ epc = "done"
     /\ payload.kind = "email"
     /\ \E k \in DOMAIN ResponseLines(ret.content) :
           IsSubjectLine(ResponseLines(ret.content)[k]))
        => LET lines == ResponseLines(ret.content)
               k == CHOOSE k \in DOMAIN lines :
                       /\ IsSubjectLine(lines[k])
                       /\ \A j \in 1..(k - 1) : ~IsSubjectLine(lines[j])
           IN  /\ payload.subject = Strip(Tail(lines[k]))
               /\ payload.body = Strip(JoinLines(SubSeq(lines, k + 1, Len(lines))))

\* the running generate_email call got the terminal failure result from the
\* generation service and has returned
ReturnedAfterTerminalFailure ==
    /\ epc = "done"
    /\ match # NoMatch
    /\ ret.kind = "result"
    /\ ret.provider = "none"

\* C31: when the generation service answers with its terminal failure result,
\* generate_email returns no error payload but an email payload: its subject
\* is the subject of the matched template, its body is the diagnostic text of
\* the failure result as it stands, and its tokens and cost are 0.
C31_TerminalFailureBecomesEmail ==
    ReturnedAfterTerminalFailure =>
        /\ payload.kind = "email"
        /\ payload.subject = match.template.subject
        /\ payload.body = ret.content
        /\ payload.body =
               ErrorPrefix \o <<" ">>
                   \o Slice(BuildPrompt(match.template, mapping), PromptEchoLen) \o <<"...">>
        /\ payload.tokens = 0
        /\ payload.cost = 0
        /\ payload.template_id = match.template.id

\* a call on a readable table whose only provider attempt failed
C31_Witness ==
    /\ ReturnedAfterTerminalFailure
    /\ Len(attempts) = 1
    /\ ~attempts[1].ok
    /\ payload.kind = "email"
    /\ payload.subject = TemplateA.subject
    /\ payload.body = <<"Error:", " ", HeaderLine, "...">>

\* C32 (as claimed): the provider named in an email payload is the provider
\* of the generation result whose content, tokens and cost the payload
\* carries, "none" included when generation failed for good.
C32_PayloadProviderIsResultProvider ==
    (epc = "done" /\ payload.kind = "email")
        => payload.llm_provider = ret.provider
-----------------------------------------------------------------------------
(* Properties of search_leads *)

MaxReformulations == 4
CallsPerSearch == 3

\* the host of a URL: lowercased, without the scheme prefix and the path
NormalizedHost(href) ==
    LET parts == SplitSlash(Lower(href))
    IN  IF Len(parts) >= 3 /\ parts[1] = <<"https:">> /\ parts[2] = <<>>
        THEN parts[3] ELSE parts[1]

\* the host ends in a top-level domain of the non-target-locale list
HasNonEnglishTld(href) ==
    LET host == NormalizedHost(href)
    IN  Len(host) >= 2 /\ SubSeq(host, Len(host) - 1, Len(host)) \in NonEnglishTlds

\* C15 (as claimed): search_leads never returns two hits whose URLs have the
\* same normalized host, with or without a scheme prefix, and never more than
\* five hits.
C15_DistinctHostsWithinCap ==
    spc = "done" =>
        /\ Len(hits) <= MaxLeads
        /\ \A i, j \in DOMAIN hits :
              i # j => NormalizedHost(hits[i].href) # NormalizedHost(hits[j].href)

\* C16: no hit search_leads returns has a URL that contains, ignoring case,
\* an entry of the exclusion list.
C16_NoExcludedHost ==
    spc = "done" =>
        \A i \in DOMAIN hits : ~ContainsAny(Lower(hits[i].href), Blacklist)

\* a result page held an excluded host written in capitals next to an
\* acceptable hit, and only the latter came back
C16_Witness ==
    /\ spc = "done"
    /\ hits # <<>>
    /\ \E i \in DOMAIN raw_results :
          /\ ContainsAny(Lower(raw_results[i].href), Blacklist)
          /\ ~ContainsAny(raw_results[i].href, Blacklist)

\* C17 (as claimed): no hit search_leads returns has a URL whose top-level
\* domain is one of .cn, .ru, .jp, .kr, .tw, .hk.
C17_NoNonTargetLocale ==
    spc = "done" => \A i \in DOMAIN hits : ~HasNonEnglishTld(hits[i].href)

\* C18: search_leads makes at most 4 x 3 provider calls; until it returns it
\* is always waiting for one provider call, whose answer or error it takes
\* as one more call made, so it returns after at most twelve of them; and
\* when every reformulation got zero raw results from the providers (empty
\* answers or errors) what it returns is the empty list.
C18_EmptySearchReturnsEmpty ==
    /\ [](/\ Len(providerCalls) <= MaxReformulations * CallsPerSearch
          /\ spc = "searching" => stage \in {"serpapi", "ddg", "broad"}
          /\ (spc = "done" /\ raw_results = <<>>) => hits = <<>>)
    /\ [][spc = "searching" =>
            /\ Len(providerCalls') = Len(providerCalls) + 1
            /\ spc' \in {"searching", "done"}]_vars

\* all twelve provider calls were made and came back empty or failed
C18_Witness ==
    /\ spc = "done"
    /\ Len(providerCalls) = MaxReformulations * CallsPerSearch
    /\ raw_results = <<>>
    /\ hits = <<>>

\* the provider calls made for reformulation number a
RECURSIVE CallsOf(_, _)
CallsOf(log, a) ==
    IF log = <<>> THEN <<>>
    ELSE IF log[1].attempt = a THEN <<log[1]>> \o CallsOf(Tail(log), a)
    ELSE CallsOf(Tail(log), a)

\* C22: search_leads asks the four reformulations in their fixed order, one
\* after another; it goes on to the next one only after an empty raw result,
\* makes no provider call after a non-empty one, and every hit it returns is
\* one of the raw results of the last call made, also when the filters
\* reject everything of that result.
C22_StopsAtFirstNonEmpty ==
    /\ [](/\ \A k \in DOMAIN providerCalls :
                /\ providerCalls[k].attempt \in 1..MaxReformulations
                /\ providerCalls[k].query \in
                      {Queries(icp)[providerCalls[k].attempt],
                       BroadQuery(Queries(icp)[providerCalls[k].attempt])}
                /\ k > 1 => providerCalls[k].attempt - providerCalls[k - 1].attempt \in {0, 1}
                /\ k < Len(providerCalls) => providerCalls[k].answer = <<>>
          /\ (providerCalls # <<>> => providerCalls[1].attempt = 1)
          /\ Queries(icp) = << icp \o <<"company", "website">>, icp \o <<"startups">>,
                               icp \o <<"companies">>, icp >>
          /\ spc = "done" =>
                /\ providerCalls # <<>>
                /\ raw_results = providerCalls[Len(providerCalls)].answer
                /\ raw_results = <<>> =>
                      providerCalls[Len(providerCalls)].attempt = MaxReformulations
                /\ \A i \in DOMAIN hits : \E j \in DOMAIN raw_results : hits[i] = raw_results[j])
    /\ [][spc = "done" => providerCalls' = providerCalls]_vars

\* the third reformulation was the first with raw results, every one of them
\* was rejected, and the search ended there with nothing
C22_Witness ==
    /\ spc = "done"
    /\ providerCalls[Len(providerCalls)].attempt = 3
    /\ raw_results # <<>>
    /\ hits = <<>>

\* C23: within one search call SerpAPI is asked first, and only with a
\* configured key, then DuckDuckGo with the full query, then DuckDuckGo with
\* the first three words; a step is only made after every earlier step came
\* back empty or failed, at most three calls are made, and what the last
\* search call handed to search_leads is the answer of its last step.
C23_ProviderCascade ==
    \A a \in 1..MaxReformulations :
        LET cs == CallsOf(providerCalls, a)
            order == IF serpapi_key = "key"
                     THEN <<"serpapi", "duckduckgo", "duckduckgo">>
                     ELSE <<"duckduckgo", "duckduckgo">>
            full == Queries(icp)[a]
            queries == IF serpapi_key = "key"
                       THEN <<full, full, SubSeq(full, 1, Min(3, Len(full)))>>
                       ELSE <<full, SubSeq(full, 1, Min(3, Len(full)))>>
        IN  /\ Len(cs) <= CallsPerSearch
            /\ Len(cs) <= Len(order)
            /\ \A k \in DOMAIN cs :
                  /\ cs[k].provider = order[k]
                  /\ cs[k].query = queries[k]
                  /\ k < Len(cs) => cs[k].answer = <<>>
            /\ (cs # <<>> /\ (a < qi \/ spc = "done")) =>
                  \/ cs[Len(cs)].answer # <<>>
                  \/ Len(cs) = Len(order)
            /\ (cs # <<>> /\ a = qi /\ spc = "done") => raw_results = cs[Len(cs)].answer

\* with a key configured, SerpAPI and the full DuckDuckGo query came back
\* empty and the shortened query brought the results
C23_Witness ==
    /\ spc = "done"
    /\ serpapi_key = "key"
    /\ Len(CallsOf(providerCalls, 1)) = 3
    /\ Len(icp) > 3
    /\ providerCalls[3].query # providerCalls[2].query
    /\ raw_results # <<>>
    /\ raw_results = providerCalls[3].answer

\* a result passes the filter steps: no excluded host, no list title
Passes(r) ==
    /\ ~ContainsAny(Lower(r.href), Blacklist)
    /\ ~ContainsAny(Lower(r.title), ListWords)

\* the passing results from position i on, first occurrence per host, in
\* the order of the raw results, up to the cap
RECURSIVE FirstPerHost(_, _, _, _)
FirstPerHost(raw, i, kept, hosts) ==
    IF i > Len(raw) \/ Len(kept) >= MaxLeads THEN kept
    ELSE IF Passes(raw[i]) /\ NormalizedHost(raw[i].href) \notin hosts
    THEN FirstPerHost(raw, i + 1, Append(kept, raw[i]),
                      hosts \cup {NormalizedHost(raw[i].href)})
    ELSE FirstPerHost(raw, i + 1, kept, hosts)

\* C27 (as claimed): a hit rejected by the exclusion list or the title
\* pattern does not mark its host as seen, so a later passing hit on that
\* host is returned; among passing hits the first of each host is the one
\* returned, and the output keeps the order of the raw results.
C27_RejectedHostsNotSeen ==
    spc = "done" => hits = FirstPerHost(raw_results, 1, <<>>, {})
-----------------------------------------------------------------------------
(* Properties of EmailTemplateStore *)

\* C19: whatever add_template and add_templates_bulk have put into the
\* index, every match search_similar returns under a category filter carries
\* that category; a template given without category is found under "general".
C19_FilterRestrictsCategory ==
    (last.op = "search_similar" /\ Truthy(last.category_filter))
        => \A i \in DOMAIN last.ret : last.ret[i][1].category = last.category_filter

\* a search under "general" found the template that was added without a
\* category, in an index that also holds another category
C19_Witness ==
    /\ last.op = "search_similar"
    /\ last.category_filter = "general"
    /\ last.ret # <<>>
    /\ last.ret[1][1].id = TemplateB.id
    /\ \E e \in index : e.category # "general"

\* C20 (as claimed): after add_templates_bulk over a list of templates with
\* distinct ids, get_template_by_id of each of these ids returns the template
\* as it was given (the table file being there and readable).
C20_BulkRoundTrip ==
    (last.op = "get_template_by_id" /\ table.present /\ table.readable) =>
        \A i \in DOMAIN bulked :
            bulked[i].id = last.template_id => last.ret = bulked[i]

\* the entries of the submitted batches, one after another
RECURSIVE Concat(_)
Concat(bs) == IF bs = <<>> THEN <<>> ELSE bs[1].batch \o Concat(Tail(bs))

\* C21: add_templates_bulk submits batches of at most 100 entries, one after
\* another in list order: what it has submitted is at every moment the
\* beginning of the input list, and when it returns it has submitted exactly
\* the input list (nothing dropped or doubled at a boundary, also for 0 and
\* for multiples of 100) and returns the length of the list.
C21_BatchesCoverTheList ==
    /\ \A k \in DOMAIN batches : Len(batches[k].batch) \in 1..BatchSize
    /\ Len(Concat(batches)) <= Len(bulked)
    /\ Concat(batches) = SubSeq(Vectors(bulked), 1, Len(Concat(batches)))
    /\ bpc = "returned" =>
          /\ Concat(batches) = Vectors(bulked)
          /\ last.ret = Len(bulked)

\* a list of exactly two full batches went through
C21_Witness ==
    /\ bpc = "returned"
    /\ Len(bulked) = 2 * BatchSize
    /\ Len(batches) = 2
    /\ last.ret = 2 * BatchSize

\* C26: add_templates_bulk returns its count exactly when every upsert
\* succeeded; when the upsert of a batch fails the call raises, that batch is
\* the last one submitted, and the batches before it are in the index.
C26_BulkFailsOnFirstFailedBatch ==
    /\ bpc = "returned" => \A k \in DOMAIN batches : batches[k].ok
    /\ (\E k \in DOMAIN batches : ~batches[k].ok) =>
          /\ bpc = "raised"
          /\ "ret" \notin DOMAIN last
          /\ ~batches[Len(batches)].ok
          /\ \A k \in 1..(Len(batches) - 1) :
                /\ batches[k].ok
                /\ \A i \in DOMAIN batches[k].batch : batches[k].batch[i] \in index

\* the second batch of three failed after the first had been upserted
C26_Witness ==
    /\ bpc = "raised"
    /\ Len(bulked) > 2 * BatchSize
    /\ Len(batches) = 2
    /\ batches[1].ok
    /\ \A i \in DOMAIN batches[1].batch : batches[1].batch[i] \in index
\* ids of the entries an index holds
IndexedIds(idx) == {e.id : e \in idx}

\* C33: delete_template(id) takes the entry out of the vector index and
\* nothing else: the table is as before, so get_template_by_id(id) answers
\* as it did before the delete; search_similar returns indexed ids only, the
\* deleted id is no longer indexed, and an id enters the index only by
\* add_template or add_templates_bulk, so a deleted id is not found again
\* before it is re-added.
C33_DeleteOnlyTouchesIndex ==
    /\ [](last.op = "search_similar" =>
            \A i \in DOMAIN last.ret : last.ret[i][1].id \in IndexedIds(index))
    /\ [][\A id \in TemplateIds :
            (last'.op = "delete_template" /\ last'.template_id = id) =>
                /\ table' = table
                /\ GetTemplateById(id)' = GetTemplateById(id)
                /\ id \notin IndexedIds(index')
                /\ \A c \in StoreCategoryArgs : \A ms \in SearchSimilar(c)' :
                       \A i \in DOMAIN ms : ms[i][1].id # id
                /\ \A e \in index : e.id # id => e \in index']_vars
    /\ [][\A id \in TemplateIds :
            (id \notin IndexedIds(index) /\ id \in IndexedIds(index'))
                => last'.op \in {"add_template", "add_templates_bulk"}]_vars

\* t1 was added in bulk with another template and then deleted: the index
\* holds the other one only, the table still answers for t1
C33_Witness ==
    /\ last.op = "delete_template"
    /\ last.template_id = TemplateA.id
    /\ \E i \in DOMAIN bulked : bulked[i].id = TemplateA.id
    /\ TemplateA.id \notin IndexedIds(index)
    /\ index # {}
    /\ GetTemplateById(TemplateA.id) = TemplateA
=============================================================================
